---- MODULE Spec2Model ----
(***************************************************************************)
(* Model of the hive-mind conversation orchestration engine:               *)
(*   - ConversationService (backend/src/services/conversation.service.ts): *)
(*     the debate scheduler, stopDebate and generateConclusion acting on   *)
(*     one stored conversation;                                            *)
(*   - ModeratorBot (backend/src/bots/moderator.bot.ts): the extraction of *)
(*     a decision from the moderator's free-text reply.                    *)
(* Every await of an agent call is a suspension point, so a handler is     *)
(* split into one action per run-to-suspension segment.                    *)
(***************************************************************************)
EXTENDS Integers, Sequences, FiniteSets, TLC

VARIABLES
    bots,               \* BotRegistry.bots: registered specialist ids, in insertion order
    created,            \* TRUE once the conversation is in ConversationService.conversations
    status,             \* conversation.status
    currentPhase,       \* conversation.currentPhase
    activeBot,          \* conversation.activeBot ("undefined" when absent)
    messages,           \* conversation.messages
    debateRound,        \* conversation.debateRound
    participatingBots,  \* conversation.participatingBots
    debatePc,           \* the debate loop: "idle", "timer" (setTimeout pending), "inflight" (awaiting answerQuery)
    turnBot,            \* botId local of the getNextDebateResponse call in flight
    concluding,         \* number of generateConclusion calls awaiting the moderator
    lastOp,             \* the handler segment that ran last
    ret,                \* how the call that ended last settled: [kind, value]
    notified,           \* TRUE when the segment that ran last invoked broadcastCallback
    guidedPc,           \* the guided call chain: "idle", or the agent call it awaits
    guidedBot,          \* botId local of the queryBot call in flight
    guidedInput,        \* the bot message handed to the follow-up analysis in flight
    nested,             \* TRUE when the chain runs inside the try block of a queryBot call
    now,                \* Date.now(), read by createMessage
    botConfigs,         \* BotRegistry.bots: the model of the instance stored under each id
    conversationId,     \* conversation.id
    userId,             \* conversation.userId
    title,              \* conversation.title
    debateMode,         \* conversation.debateMode
    pendingTurns,       \* getNextDebateResponse calls pending in a timer or suspended at their await
    sockets,            \* the WebSocket objects the browser created, in order of creation
    ws,                 \* WebSocketService.ws: index into sockets, 0 for null
    wsConversationId,   \* WebSocketService.conversationId
    reconnectAttempts,  \* WebSocketService.reconnectAttempts
    reconnectTimers,    \* pending setTimeout callbacks of onclose
    text,               \* the moderator reply handed to the decision engine (token sequence)
    decision            \* the decision processBotResponse returned for text

vars == <<bots, created, status, currentPhase, activeBot, messages, debateRound,
          participatingBots, debatePc, turnBot, concluding, lastOp, ret, notified,
          guidedPc, guidedBot, guidedInput, nested, now, botConfigs, conversationId, userId,
          title, debateMode, pendingTurns, sockets, ws, wsConversationId, reconnectAttempts,
          reconnectTimers, text, decision>>

convVars == <<bots, created, status, currentPhase, activeBot, messages, debateRound,
              participatingBots, debatePc, turnBot, concluding>>

decisionVars == <<text, decision>>

identityVars == <<conversationId, userId, title, debateMode>>

socketVars == <<sockets, ws, wsConversationId, reconnectAttempts, reconnectTimers>>

guidedVars == <<guidedPc, guidedBot, guidedInput, nested>>

(***************************************************************************)
(* Bounds of the model.                                                    *)
(***************************************************************************)
MaxDynamicBots == 2     \* instances createConversation registers from model selections
MaxResponses == 4       \* a debating conversation starts no turn after this many bot-responses
MaxFailures == 1        \* failed agent calls of debate turns
MaxStops == 2           \* stopDebate calls
MaxConclusions == 1     \* generateConclusion calls that reach their final-report

Undefined == "undefined"

\* BOT_CONFIGS: the pre-configured specialists, all enabled
DefaultBots == <<"search-specialist", "technical-expert", "code-specialist", "integration-specialist">>

\* ids `${modelId}-${uuid}` of dynamically created debate participants
DynamicBots == <<"dyn-1", "dyn-2", "dyn-3">>

\* randomUUID() of createConversation, and the caller's userId
NewConversationId == "conv-1"
UserId == "user-1"

ReplyTexts == {"reply"}
ReportTexts == {"report-a", "report-b"}

(***************************************************************************)
(* Helpers on the message log.                                             *)
(***************************************************************************)
\* variant of createMessage whose timestamps run against the clock
createMessageBackdated(role, type, content, botId, modelName) ==
    [role |-> role, type |-> type, content |-> content, botId |-> botId, modelName |-> modelName,
     timestamp |-> 0 - now]

createMessage(role, type, content, botId, modelName) ==
    [role |-> role, type |-> type, content |-> content, botId |-> botId, modelName |-> modelName,
     timestamp |-> now]

\* MODERATOR_CONFIG.model
ModeratorModel == "anthropic/claude-3.5-sonnet"

\* getConfig().model of a registered specialist
ModelOf(botId) ==
    CASE botId = "integration-specialist" -> "openai/gpt-4-turbo"
      [] botId = "dyn-1" -> "anthropic/claude-3-opus"
      [] botId = "dyn-2" -> "openai/gpt-4o"
      [] botId = "dyn-3" -> "anthropic/claude-3-haiku"
      [] OTHER -> "anthropic/claude-3.5-sonnet"

NoMessage ==
    [role |-> "none", type |-> "none", content |-> "", botId |-> Undefined,
     modelName |-> Undefined, timestamp |-> 0]

\* the ids a registry entry can have in the model
AllBotIds == {"search-specialist", "technical-expert", "code-specialist", "integration-specialist",
              "dyn-1", "dyn-2", "dyn-3"}

\* the registry after the constructor's initializeBots
InitialConfigs ==
    [id \in AllBotIds |->
        IF id \in {"search-specialist", "technical-expert", "code-specialist",
                   "integration-specialist"}
        THEN ModelOf(id) ELSE Undefined]

RECURSIVE CountType(_, _)
CountType(msgs, type) ==
    IF msgs = <<>> THEN 0
    ELSE (IF msgs[Len(msgs)].type = type THEN 1 ELSE 0)
         + CountType(SubSeq(msgs, 1, Len(msgs) - 1), type)

RECURSIVE CountContent(_, _)
CountContent(msgs, content) ==
    IF msgs = <<>> THEN 0
    ELSE (IF msgs[Len(msgs)].content = content THEN 1 ELSE 0)
         + CountContent(SubSeq(msgs, 1, Len(msgs) - 1), content)

\* messages.filter(m => m.type === 'bot-response')
BotResponses(msgs) == SelectSeq(msgs, LAMBDA m : m.type = "bot-response")

SeqToSet(s) == {s[i] : i \in DOMAIN s}

CeilDiv(a, b) == (a + b - 1) \div b

StopText == "Debate has been stopped by the user."
TurnErrorText == "Error getting response. Continuing with other participants."

(***************************************************************************)
(* getNextDebateResponse, up to its await.                                 *)
(***************************************************************************)
\* the early return on status
DebateStopped(st) == st = "stopped"

\* variant: the index counts every message of the log
NextSpeakerOfAllMessages(msgs, parts) ==
    IF Len(parts) = 0 THEN Undefined
    ELSE parts[(Len(msgs) % Len(parts)) + 1]

\* botIndex = (#bot-response) % participatingBots.length ; an empty list gives
\* index NaN and botId undefined
NextSpeaker(msgs, parts) ==
    IF Len(parts) = 0 THEN Undefined
    ELSE parts[(Len(BotResponses(msgs)) % Len(parts)) + 1]

\* botRegistry.getBot(botId) found
BotFound(reg, botId) == botId \in SeqToSet(reg)

\* the call reaches `await specialist.answerQuery`
TurnStarts(st, msgs, parts, reg) ==
    /\ ~DebateStopped(st)
    /\ BotFound(reg, NextSpeaker(msgs, parts))

\* variant: the loop goes on unless the conversation is completed
ReschedulesUnlessCompleted(st) == st # "completed"

\* `if (conversation.status === 'debating') setTimeout(...)`
Reschedules(st) == st = "debating"

\* variant: Math.floor in place of Math.ceil
RoundOfFloor(msgs, parts) == Len(BotResponses(msgs)) \div Len(parts)

\* Math.ceil(totalResponses / participatingBots.length)
RoundOf(msgs, parts) == CeilDiv(Len(BotResponses(msgs)), Len(parts))

(***************************************************************************)
(* Initial state: the service is constructed, no conversation stored.      *)
(***************************************************************************)
NoRet == [kind |-> "none", value |-> ""]
NoDecision == [action |-> "none", target |-> Undefined, content |-> Undefined]

Init ==
    /\ bots = DefaultBots
    /\ created = FALSE
    /\ status = "none"
    /\ currentPhase = ""
    /\ activeBot = Undefined
    /\ messages = <<>>
    /\ debateRound = 0
    /\ participatingBots = <<>>
    /\ debatePc = "idle"
    /\ turnBot = Undefined
    /\ concluding = 0
    /\ lastOp = "init"
    /\ ret = NoRet
    /\ notified = FALSE
    /\ guidedPc = "idle"
    /\ guidedBot = Undefined
    /\ guidedInput = NoMessage
    /\ nested = FALSE
    /\ now = 0
    /\ botConfigs = InitialConfigs
    /\ conversationId = Undefined
    /\ userId = Undefined
    /\ title = Undefined
    /\ debateMode = Undefined
    /\ pendingTurns = 0
    /\ sockets = <<>>
    /\ ws = 0
    /\ wsConversationId = Undefined
    /\ reconnectAttempts = 0
    /\ reconnectTimers = 0
    /\ text = <<>>
    /\ decision = NoDecision

(***************************************************************************)
(* createConversation(userId, question, debateMode = true, selectedModels) *)
(* followed by startDebate -> getNextDebateResponse up to its await.       *)
(* n = 0 with dynamic = TRUE stands for selections whose models are all    *)
(* unknown: participatingBots stays [].                                    *)
(***************************************************************************)
CreateDebate(dynamic, n) ==
    LET parts == IF dynamic THEN SubSeq(DynamicBots, 1, n) ELSE bots
        reg == IF dynamic THEN bots \o parts ELSE bots
        first == <<createMessage("user", "user-question", "question", Undefined, Undefined)>>
        starts == TurnStarts("debating", first, parts, reg)
    IN  /\ ~created
        /\ created' = TRUE
        /\ bots' = reg
        /\ participatingBots' = parts
        /\ status' = "debating"
        /\ messages' = first
        /\ debateRound' = 1
        /\ currentPhase' = IF starts THEN "is responding" ELSE "Starting debate"
        /\ activeBot' = IF starts THEN NextSpeaker(first, parts) ELSE Undefined
        /\ turnBot' = IF starts THEN NextSpeaker(first, parts) ELSE Undefined
        /\ debatePc' = IF starts THEN "inflight" ELSE "idle"
        /\ botConfigs' = [id \in AllBotIds |->
                            IF dynamic /\ id \in SeqToSet(parts) THEN ModelOf(id)
                            ELSE botConfigs[id]]
        /\ conversationId' = NewConversationId
        /\ userId' = UserId
        /\ title' = "question"
        /\ debateMode' = TRUE
        /\ pendingTurns' = IF starts THEN 1 ELSE 0
        /\ lastOp' = "createConversation"
        /\ notified' = FALSE
        /\ UNCHANGED <<now, concluding, ret, decisionVars, guidedVars, socketVars>>

CreateConversation ==
    \/ CreateDebate(FALSE, 0)
    \/ \E n \in 0..MaxDynamicBots : CreateDebate(TRUE, n)

\* variant of TimerFires: a call that does not start a turn sets the timer again
TimerFiresRearms ==
    LET starts == TurnStarts(status, messages, participatingBots, bots)
        speaker == NextSpeaker(messages, participatingBots)
    IN  /\ created
        /\ debatePc = "timer"
        /\ Len(BotResponses(messages)) < MaxResponses \/ ~Reschedules(status)
        /\ debatePc' = IF starts THEN "inflight" ELSE "timer"
        /\ turnBot' = IF starts THEN speaker ELSE Undefined
        /\ activeBot' = IF starts THEN speaker ELSE activeBot
        /\ currentPhase' = IF starts THEN "is responding" ELSE currentPhase
        /\ lastOp' = IF starts THEN "turnStart" ELSE "turnSkipped"
        /\ notified' = FALSE
        /\ UNCHANGED <<now, botConfigs, pendingTurns, identityVars, socketVars>>
        /\ UNCHANGED <<bots, created, status, messages, debateRound, participatingBots,
                       concluding, ret, decisionVars, guidedVars>>

(***************************************************************************)
(* The setTimeout callback: getNextDebateResponse up to its await.         *)
(***************************************************************************)
TimerFires ==
    LET starts == TurnStarts(status, messages, participatingBots, bots)
        speaker == NextSpeaker(messages, participatingBots)
    IN  /\ created
        /\ debatePc = "timer"
        /\ Len(BotResponses(messages)) < MaxResponses \/ ~Reschedules(status)
        /\ debatePc' = IF starts THEN "inflight" ELSE "idle"
        /\ turnBot' = IF starts THEN speaker ELSE Undefined
        /\ activeBot' = IF starts THEN speaker ELSE activeBot
        /\ currentPhase' = IF starts THEN "is responding" ELSE currentPhase
        /\ lastOp' = IF starts THEN "turnStart" ELSE "turnSkipped"
        /\ notified' = FALSE
        /\ pendingTurns' = IF starts THEN pendingTurns ELSE pendingTurns - 1
        /\ UNCHANGED <<now, botConfigs, identityVars, socketVars>>
        /\ UNCHANGED <<bots, created, status, messages, debateRound, participatingBots,
                       concluding, ret, decisionVars, guidedVars>>

(***************************************************************************)
(* answerQuery resolves: the try block after the await.                    *)
(***************************************************************************)
TurnSucceeds(reply) ==
    LET msgs == Append(messages, createMessage("bot", "bot-response", reply, turnBot, ModelOf(turnBot)))
    IN  /\ debatePc = "inflight"
        /\ messages' = msgs
        /\ debateRound' = RoundOf(msgs, participatingBots)
        /\ debatePc' = IF Reschedules(status) THEN "timer" ELSE "idle"
        /\ turnBot' = Undefined
        /\ lastOp' = "turnOk"
        /\ notified' = TRUE
        /\ pendingTurns' = IF Reschedules(status) THEN pendingTurns ELSE pendingTurns - 1
        /\ UNCHANGED <<now, botConfigs, identityVars, socketVars>>
        /\ ret' = [kind |-> "resolved", value |-> "getNextDebateResponse"]
        /\ UNCHANGED <<bots, created, status, currentPhase, activeBot, participatingBots,
                       concluding, decisionVars, guidedVars>>

\* variant: the catch block does not schedule the next turn
TurnFailsAndHalts ==
    /\ debatePc = "inflight"
    /\ CountContent(messages, TurnErrorText) < MaxFailures
    /\ messages' = Append(messages, createMessage("system", "system-message", TurnErrorText, Undefined, Undefined))
    /\ debatePc' = "idle"
    /\ turnBot' = Undefined
    /\ lastOp' = "turnFail"
    /\ notified' = FALSE
    /\ pendingTurns' = pendingTurns - 1
    /\ UNCHANGED <<now, botConfigs, identityVars, socketVars>>
    /\ ret' = [kind |-> "resolved", value |-> "getNextDebateResponse"]
    /\ UNCHANGED <<bots, created, status, currentPhase, activeBot, debateRound,
                   participatingBots, concluding, decisionVars, guidedVars>>

\* variant: the catch block sets the timer and a second one after it
TurnFailsSchedulesTwice ==
    /\ debatePc = "inflight"
    /\ CountContent(messages, TurnErrorText) < MaxFailures
    /\ messages' = Append(messages, createMessage("system", "system-message", TurnErrorText, Undefined, Undefined))
    /\ debatePc' = IF Reschedules(status) THEN "timer" ELSE "idle"
    /\ turnBot' = Undefined
    /\ lastOp' = "turnFail"
    /\ notified' = FALSE
    /\ pendingTurns' = IF Reschedules(status) THEN pendingTurns + 1 ELSE pendingTurns - 1
    /\ UNCHANGED <<now, botConfigs, identityVars, socketVars>>
    /\ ret' = [kind |-> "resolved", value |-> "getNextDebateResponse"]
    /\ UNCHANGED <<bots, created, status, currentPhase, activeBot, debateRound,
                   participatingBots, concluding, decisionVars, guidedVars>>

(***************************************************************************)
(* answerQuery rejects: the catch block.                                   *)
(***************************************************************************)
TurnFails ==
    /\ debatePc = "inflight"
    /\ CountContent(messages, TurnErrorText) < MaxFailures
    /\ messages' = Append(messages, createMessage("system", "system-message", TurnErrorText, Undefined, Undefined))
    /\ debatePc' = IF Reschedules(status) THEN "timer" ELSE "idle"
    /\ turnBot' = Undefined
    /\ lastOp' = "turnFail"
    /\ notified' = FALSE
    /\ pendingTurns' = IF Reschedules(status) THEN pendingTurns ELSE pendingTurns - 1
    /\ UNCHANGED <<now, botConfigs, identityVars, socketVars>>
    /\ ret' = [kind |-> "resolved", value |-> "getNextDebateResponse"]
    /\ UNCHANGED <<bots, created, status, currentPhase, activeBot, debateRound,
                   participatingBots, concluding, decisionVars, guidedVars>>

\* variant: activeBot is left as it is
StopDebateKeepsActiveBot ==
    /\ created
    /\ CountContent(messages, StopText) < MaxStops
    /\ status' = "stopped"
    /\ currentPhase' = "Debate stopped"
    /\ messages' = Append(messages, createMessage("system", "system-message", StopText, Undefined, Undefined))
    /\ lastOp' = "stopDebate"
    /\ notified' = FALSE
    /\ UNCHANGED <<now, botConfigs, pendingTurns, identityVars, socketVars>>
    /\ ret' = [kind |-> "resolved", value |-> "stopDebate"]
    /\ UNCHANGED <<bots, created, activeBot, debateRound, participatingBots, debatePc, turnBot,
                   concluding, decisionVars, guidedVars>>

\* variant: a stop of a stopped conversation appends nothing
StopDebateOnce ==
    /\ created
    /\ CountContent(messages, StopText) < MaxStops
    /\ status' = "stopped"
    /\ currentPhase' = "Debate stopped"
    /\ activeBot' = Undefined
    /\ messages' = IF status = "stopped" THEN messages
                   ELSE Append(messages, createMessage("system", "system-message", StopText, Undefined, Undefined))
    /\ lastOp' = "stopDebate"
    /\ notified' = FALSE
    /\ UNCHANGED <<now, botConfigs, pendingTurns, identityVars, socketVars>>
    /\ ret' = [kind |-> "resolved", value |-> "stopDebate"]
    /\ UNCHANGED <<bots, created, debateRound, participatingBots, debatePc, turnBot,
                   concluding, decisionVars, guidedVars>>

\* variant: a stop empties the participant list
StopDebateDropsParticipants ==
    /\ created
    /\ CountContent(messages, StopText) < MaxStops
    /\ status' = "stopped"
    /\ currentPhase' = "Debate stopped"
    /\ activeBot' = Undefined
    /\ participatingBots' = <<>>
    /\ messages' = Append(messages, createMessage("system", "system-message", StopText, Undefined, Undefined))
    /\ lastOp' = "stopDebate"
    /\ notified' = FALSE
    /\ UNCHANGED <<now, botConfigs, pendingTurns, identityVars, socketVars>>
    /\ ret' = [kind |-> "resolved", value |-> "stopDebate"]
    /\ UNCHANGED <<bots, created, debateRound, debatePc, turnBot,
                   concluding, decisionVars, guidedVars>>

(***************************************************************************)
(* stopDebate(conversationId) on the stored conversation.                  *)
(***************************************************************************)
StopDebate ==
    /\ created
    /\ CountContent(messages, StopText) < MaxStops
    /\ status' = "stopped"
    /\ currentPhase' = "Debate stopped"
    /\ activeBot' = Undefined
    /\ messages' = Append(messages, createMessage("system", "system-message", StopText, Undefined, Undefined))
    /\ lastOp' = "stopDebate"
    /\ notified' = FALSE
    /\ UNCHANGED <<now, botConfigs, pendingTurns, identityVars, socketVars>>
    /\ ret' = [kind |-> "resolved", value |-> "stopDebate"]
    /\ UNCHANGED <<bots, created, debateRound, participatingBots, debatePc, turnBot,
                   concluding, decisionVars, guidedVars>>

(***************************************************************************)
(* generateConclusion(conversationId): up to `await synthesizeReport`,     *)
(* then the continuation, or the rejection when the moderator call fails.  *)
(***************************************************************************)
ConclusionStarts ==
    /\ created
    /\ CountType(messages, "final-report") + concluding < MaxConclusions
    /\ status' = "synthesizing"
    /\ currentPhase' = "Generating conclusion"
    /\ concluding' = concluding + 1
    /\ lastOp' = "concludeStart"
    /\ notified' = FALSE
    /\ UNCHANGED <<now, botConfigs, pendingTurns, identityVars, socketVars>>
    /\ UNCHANGED <<bots, created, activeBot, messages, debateRound, participatingBots,
                   debatePc, turnBot, ret, decisionVars, guidedVars>>

\* variant: the report is returned but the message carries no content
ConclusionReturnsEmptyMessage(report) ==
    /\ concluding > 0
    /\ concluding' = concluding - 1
    /\ messages' = Append(messages, createMessage("moderator", "final-report", "", Undefined, ModeratorModel))
    /\ status' = "completed"
    /\ currentPhase' = "Concluded"
    /\ lastOp' = "concludeReturn"
    /\ notified' = FALSE
    /\ UNCHANGED <<now, botConfigs, pendingTurns, identityVars, socketVars>>
    /\ ret' = [kind |-> "returned", value |-> report]
    /\ UNCHANGED <<bots, created, activeBot, debateRound, participatingBots, debatePc,
                   turnBot, decisionVars, guidedVars>>

ConclusionReturns(report) ==
    /\ concluding > 0
    /\ concluding' = concluding - 1
    /\ messages' = Append(messages, createMessage("moderator", "final-report", report, Undefined, ModeratorModel))
    /\ status' = "completed"
    /\ currentPhase' = "Concluded"
    /\ lastOp' = "concludeReturn"
    /\ notified' = FALSE
    /\ UNCHANGED <<now, botConfigs, pendingTurns, identityVars, socketVars>>
    /\ ret' = [kind |-> "returned", value |-> report]
    /\ UNCHANGED <<bots, created, activeBot, debateRound, participatingBots, debatePc,
                   turnBot, decisionVars, guidedVars>>

ConclusionFails ==
    /\ concluding > 0
    /\ concluding' = concluding - 1
    /\ lastOp' = "concludeFail"
    /\ notified' = FALSE
    /\ UNCHANGED <<now, botConfigs, pendingTurns, identityVars, socketVars>>
    /\ ret' = [kind |-> "raised", value |-> "generateConclusion"]
    /\ UNCHANGED <<bots, created, status, currentPhase, activeBot, messages, debateRound,
                   participatingBots, debatePc, turnBot, decisionVars, guidedVars>>

Next ==
    \/ CreateConversation
    \/ TimerFires
    \/ \E reply \in ReplyTexts : TurnSucceeds(reply)
    \/ TurnFails
    \/ StopDebate
    \/ ConclusionStarts
    \/ \E report \in ReportTexts : ConclusionReturns(report)
    \/ ConclusionFails

Spec == Init /\ [][Next]_vars

(***************************************************************************)
(* The same behaviours under fairness: a pending timer fires, and an agent *)
(* call that is awaited returns or fails.                                  *)
(***************************************************************************)
AgentCallSettles == (\E reply \in ReplyTexts : TurnSucceeds(reply)) \/ TurnFails

Fairness == WF_vars(TimerFires) /\ WF_vars(AgentCallSettles)

\* a debate between one or two dynamically created participants
NextFair ==
    \/ \E n \in 1..2 : CreateDebate(TRUE, n)
    \/ TimerFires
    \/ \E reply \in ReplyTexts : TurnSucceeds(reply)
    \/ TurnFails
    \/ StopDebate
    \/ ConclusionStarts
    \/ ConclusionReturns("report-a")
    \/ ConclusionFails

SpecFair == Init /\ [][NextFair]_vars /\ Fairness

(***************************************************************************)
(* The decision engine (ModeratorBot).  A moderator reply is a sequence of *)
(* tokens: prose words, the brace characters, JSON literals, and           *)
(* `"key": value` members.  The model's JSON values are scalars, so an     *)
(* object text is a "{", members, and a "}".                               *)
(***************************************************************************)
MaxProse == 1           \* tokens of prose before and after the reply's JSON body
ConfidenceThreshold == 80

Tok(k, v, n) == [k |-> k, v |-> v, n |-> n, items |-> <<>>]
\* a member whose value is an array of strings
ListTok(k, items) == [k |-> k, v |-> "array", n |-> 0, items |-> items]
LBrace == Tok("{", "", 0)
RBrace == Tok("}", "", 0)
Word == Tok("word", "Sure thing!", 0)
NullLit == Tok("literal", "null", 0)
NumLit == Tok("literal", "number", 0)

IsBrace(t) == t.k \in {"{", "}"}
IsMember(t) == t.k \notin {"{", "}", "word", "literal"}

\* JSON.parse: [ok |-> FALSE] stands for the SyntaxError
ParseError == [ok |-> FALSE, kind |-> "error", members |-> <<>>]
JSONparse(s) ==
    IF Len(s) >= 2 /\ s[1] = LBrace /\ s[Len(s)] = RBrace
       /\ \A i \in 2..(Len(s) - 1) : IsMember(s[i])
    THEN [ok |-> TRUE, kind |-> "object", members |-> SubSeq(s, 2, Len(s) - 1)]
    ELSE IF Len(s) = 1 /\ s[1].k = "literal"
    THEN [ok |-> TRUE, kind |-> s[1].v, members |-> <<>>]
    ELSE ParseError

\* text.match(/\{[\s\S]*\}/): the first "{" through the last "}", when the
\* first "{" has a "}" after it
Min(S) == CHOOSE x \in S : \A y \in S : x <= y
Max(S) == CHOOSE x \in S : \A y \in S : x >= y
Opens(s) == {i \in DOMAIN s : s[i] = LBrace}
Closes(s) == {i \in DOMAIN s : s[i] = RBrace}
HasMatch(s) == \E i \in Opens(s) : \E j \in Closes(s) : i < j
jsonMatch(s) == SubSeq(s, Min(Opens(s)), Max(Closes(s)))

\* variant: no search for the braces, the whole text is parsed
extractJSONWholeText(s) == JSONparse(s)
extractJSON(s) == IF HasMatch(s) THEN JSONparse(jsonMatch(s)) ELSE JSONparse(s)

\* property access on the parsed value: the member's token, or absent
Has(members, key) == \E i \in DOMAIN members : members[i].k = key
Member(members, key) == members[Max({i \in DOMAIN members : members[i].k = key})]
Get(members, key) == IF Has(members, key) THEN Member(members, key).v ELSE Undefined

\* variant: >= in place of >
ConfidenceAtLeast(members) ==
    Has(members, "confidence") /\ Member(members, "confidence").n >= ConfidenceThreshold
\* decision.confidence > 80 (undefined > 80 is false)
ConfidenceAbove(members) ==
    Has(members, "confidence") /\ Member(members, "confidence").n > ConfidenceThreshold

FollowUpQuery == "Based on the previous information, provide additional insights"

Decision(action, target, content) == [action |-> action, target |-> target, content |-> content]

\* the catch block of processBotResponse
FollowUpFallback == Decision("synthesize-report", Undefined, "")

\* the try block of processBotResponse on the parsed value
DecideFollowUp(members) ==
    IF Get(members, "action") = "synthesize-report" \/ ConfidenceAbove(members)
    THEN Decision("synthesize-report", Undefined, "")
    ELSE IF Get(members, "action") = "ask-user"
    THEN Decision("ask-user", Undefined, Get(members, "question"))
    ELSE Decision("query-bot", Get(members, "nextBot"), FollowUpQuery)

\* processBotResponse on the moderator's reply; reading a property of null
\* throws a TypeError, caught like the SyntaxError
processBotResponse(s) ==
    LET parsed == extractJSON(s)
    IN  IF ~parsed.ok \/ parsed.kind = "null" THEN FollowUpFallback
        ELSE DecideFollowUp(parsed.members)

(***************************************************************************)
(* The replies handed to the decision engine: prose, then an optionally    *)
(* truncated object with any subset of the follow-up members, then prose.  *)
(***************************************************************************)
ProseTokens == {Word, LBrace, RBrace, NullLit, NumLit}

RECURSIVE SeqsUpTo(_, _)
SeqsUpTo(S, n) ==
    IF n = 0 THEN {<<>>}
    ELSE SeqsUpTo(S, n - 1) \cup {Append(s, x) : s \in SeqsUpTo(S, n - 1), x \in S}

Optional(S) == {<<>>} \cup {<<x>> : x \in S}

ActionMembers == {Tok("action", a, 0) : a \in {"continue-research", "ask-user", "synthesize-report"}}
NextBotMembers == {Tok("nextBot", "technical-expert", 0)}
QuestionMembers == {Tok("question", "clarify?", 0)}
ConfidenceMembers == {Tok("confidence", "", n) : n \in {10, 80, 81, 95}}

FollowUpBodies ==
    {o \o a \o b \o q \o c \o e :
        o \in Optional({LBrace}), a \in Optional(ActionMembers),
        b \in Optional(NextBotMembers), q \in Optional(QuestionMembers),
        c \in Optional(ConfidenceMembers), e \in Optional({RBrace})}

\* the prose a reply can carry before and after its object
Prose == SeqsUpTo(ProseTokens, MaxProse)

\* the replies made of one body with prose around it
Replies(body) == {pre \o body \o post : pre \in Prose, post \in Prose}

(***************************************************************************)
(* analyzeQuestion on the moderator's reply.  Reading [0] of a missing     *)
(* array, or a property of null, throws a TypeError inside the try block.  *)
(***************************************************************************)
Question == "question"
DefaultSearchBot == "search-specialist"

\* variant: the catch block gives up and synthesizes, as processBotResponse does
InitialFallbackSynthesizes == Decision("synthesize-report", Undefined, "")

\* the catch block of analyzeQuestion
InitialFallback == Decision("query-bot", DefaultSearchBot, Question)

\* array[0]: undefined for an empty array
First(items) == IF Len(items) = 0 THEN Undefined ELSE items[1]

\* formulateQueryForBot(question, botId)
formulateQueryForBot(question, botId) == question

\* variant of DecideInitial that consults the specialists although the reply
\* asks for clarification
DecideInitialNeverAsks(members) ==
    IF ~Has(members, "botsToConsult") THEN InitialFallback
    ELSE Decision("query-bot", First(Member(members, "botsToConsult").items),
                  formulateQueryForBot(Question, First(Member(members, "botsToConsult").items)))

\* the try block of analyzeQuestion on the parsed object
DecideInitial(members) ==
    IF Get(members, "needsClarification") = "true"
    THEN IF ~Has(members, "clarifyingQuestions") THEN InitialFallback
         ELSE Decision("ask-user", Undefined, First(Member(members, "clarifyingQuestions").items))
    ELSE IF ~Has(members, "botsToConsult") THEN InitialFallback
         ELSE Decision("query-bot", First(Member(members, "botsToConsult").items),
                       formulateQueryForBot(Question, First(Member(members, "botsToConsult").items)))

analyzeQuestion(s) ==
    LET parsed == extractJSON(s)
    IN  IF ~parsed.ok \/ parsed.kind = "null" THEN InitialFallback
        ELSE DecideInitial(parsed.members)

\* the try block of analyzeQuestion throws: the reply is not JSON, is null, or
\* lacks the list whose first element is read
InitialThrows(s) ==
    LET parsed == extractJSON(s)
    IN  \/ ~parsed.ok
        \/ parsed.kind = "null"
        \/ IF Get(parsed.members, "needsClarification") = "true"
           THEN ~Has(parsed.members, "clarifyingQuestions")
           ELSE ~Has(parsed.members, "botsToConsult")

InitialFallbackReasoning == "Starting with general search"
InitialFallbackSteps == <<"Analyze results", "Consult additional bots if needed">>

\* array.slice(1)
Rest(items) == IF Len(items) = 0 THEN <<>> ELSE Tail(items)

\* the reasoning of the decision analyzeQuestion returns
analyzeReasoning(s) ==
    IF InitialThrows(s) THEN InitialFallbackReasoning
    ELSE Get(extractJSON(s).members, "reasoning")

\* the nextSteps of the decision analyzeQuestion returns
analyzeNextSteps(s) ==
    LET members == extractJSON(s).members
    IN  IF InitialThrows(s) THEN InitialFallbackSteps
        ELSE IF Get(members, "needsClarification") = "true"
        THEN Rest(Member(members, "clarifyingQuestions").items)
        ELSE IF Has(members, "researchPlan") THEN Member(members, "researchPlan").items
        ELSE Undefined

FollowUpFallbackReasoning == "Proceeding to synthesize with available information"

\* the reasoning of the decision processBotResponse returns
followUpReasoning(s) ==
    LET parsed == extractJSON(s)
    IN  IF ~parsed.ok \/ parsed.kind = "null" THEN FollowUpFallbackReasoning
        ELSE Get(parsed.members, "reasoning")

NeedsClarificationMembers == {Tok("needsClarification", b, 0) : b \in {"true", "false"}}
ClarifyingQuestionsMembers ==
    {ListTok("clarifyingQuestions", l) : l \in {<<>>, <<"which one?", "since when?">>}}
BotsToConsultMembers ==
    {ListTok("botsToConsult", l) : l \in {<<>>, <<"technical-expert", "code-specialist">>}}

ResearchPlanMember == ListTok("researchPlan", <<"step 1", "step 2">>)

\* the research part of a reply: absent, the specialists, or the specialists and the plan
ResearchMembers ==
    Optional(BotsToConsultMembers)
        \cup {<<ListTok("botsToConsult", <<"technical-expert", "code-specialist">>),
                ResearchPlanMember>>}

InitialBodies ==
    {o \o a \o b \o c \o e :
        o \in Optional({LBrace}), a \in Optional(NeedsClarificationMembers),
        b \in Optional(ClarifyingQuestionsMembers), c \in ResearchMembers,
        e \in Optional({RBrace})}

\* a reply with none of the follow-up members
IsInitialReply(s) ==
    \A i \in DOMAIN s : s[i].k \notin {"action", "nextBot", "question", "confidence"}

InitDecision ==
    /\ bots = DefaultBots
    /\ created = FALSE
    /\ status = "none"
    /\ currentPhase = ""
    /\ activeBot = Undefined
    /\ messages = <<>>
    /\ debateRound = 0
    /\ participatingBots = <<>>
    /\ debatePc = "idle"
    /\ turnBot = Undefined
    /\ concluding = 0
    /\ lastOp = "init"
    /\ ret = NoRet
    /\ notified = FALSE
    /\ guidedPc = "idle"
    /\ guidedBot = Undefined
    /\ guidedInput = NoMessage
    /\ nested = FALSE
    /\ now = 0
    /\ botConfigs = InitialConfigs
    /\ conversationId = Undefined
    /\ userId = Undefined
    /\ title = Undefined
    /\ debateMode = Undefined
    /\ pendingTurns = 0
    /\ sockets = <<>>
    /\ ws = 0
    /\ wsConversationId = Undefined
    /\ reconnectAttempts = 0
    /\ reconnectTimers = 0
    /\ \E body \in FollowUpBodies \cup InitialBodies : text \in Replies(body)
    /\ decision = NoDecision

ProcessBotResponse ==
    /\ lastOp = "init"
    /\ decision' = processBotResponse(text)
    /\ lastOp' = "processBotResponse"
    /\ UNCHANGED <<convVars, guidedVars, ret, notified, now, botConfigs, pendingTurns,
                   identityVars, socketVars, text>>

AnalyzeQuestion ==
    /\ lastOp = "init"
    /\ IsInitialReply(text)
    /\ decision' = analyzeQuestion(text)
    /\ lastOp' = "analyzeQuestion"
    /\ UNCHANGED <<convVars, guidedVars, ret, notified, now, botConfigs, pendingTurns,
                   identityVars, socketVars, text>>

NextDecision ==
    \/ ProcessBotResponse
    \/ AnalyzeQuestion

SpecDecision == InitDecision /\ [][NextDecision]_vars

(***************************************************************************)
(* The guided flow: createConversation(debateMode = false) and             *)
(* processUserMessage drive one call chain                                 *)
(*   continueConversation -> moderator -> executeModeratorDecision ->      *)
(*   askUserQuestion | queryBot -> continueConversation | synthesizeReport *)
(* that is suspended at each agent call.  One chain runs at a time.  No    *)
(* decision of the engine carries the action continue-research, so that    *)
(* case of executeModeratorDecision is never taken.                        *)
(***************************************************************************)
MaxUserMessages == 2    \* user messages pushed to the log
MaxDecisions == 3       \* moderator decisions executed on the conversation

QueryErrorText == "Error consulting. Continuing with available information."
UnknownBot == "unknown-bot"

\* getLastBotMessage
getLastBotMessage(msgs) ==
    IF BotResponses(msgs) = <<>> THEN NoMessage
    ELSE BotResponses(msgs)[Len(BotResponses(msgs))]

UserMessageTypes == {"user-response", "user-question"}

\* the messages pushed by processUserMessage
UserMessages(msgs) == SelectSeq(msgs, LAMBDA m : m.role = "user" /\ m.type # "user-question")

\* replies of the moderator to the initial analysis prompt
GuidedInitialReplies ==
    { <<LBrace, Tok("needsClarification", "true", 0),
        ListTok("clarifyingQuestions", <<"which one?", "since when?">>),
        Tok("reasoning", "the question is vague", 0), RBrace>>,
      <<LBrace, Tok("needsClarification", "false", 0),
        ListTok("botsToConsult", <<"technical-expert", "code-specialist">>),
        Tok("reasoning", "a technical question", 0), RBrace>>,
      <<LBrace, ListTok("botsToConsult", <<UnknownBot>>), RBrace>>,
      <<Word>> }

\* replies of the moderator to the follow-up prompt
GuidedFollowUpReplies ==
    { <<LBrace, Tok("action", "ask-user", 0), Tok("question", "clarify?", 0),
        Tok("confidence", "", 10), RBrace>>,
      <<LBrace, Tok("action", "continue-research", 0), Tok("nextBot", "code-specialist", 0),
        Tok("reasoning", "code is needed", 0), Tok("confidence", "", 10), RBrace>>,
      <<LBrace, Tok("action", "continue-research", 0), Tok("nextBot", UnknownBot, 0),
        Tok("confidence", "", 10), RBrace>>,
      <<Word, LBrace, Tok("action", "synthesize-report", 0), RBrace>> }

\* continueConversation up to its await: the analysis the moderator is asked for
ContinueWith(msgs) == IF getLastBotMessage(msgs) = NoMessage THEN "analyze" ELSE "followup"
ContinuePhase(msgs) ==
    IF getLastBotMessage(msgs) = NoMessage THEN "Starting research" ELSE "Analyzing information"

\* createConversation(userId, question, false): the question is stored as
\* user-question, then processUserMessage(id, question) pushes it again with
\* the default type user-response and asks for the analysis
CreateGuided ==
    LET msgs == <<createMessage("user", "user-question", Question, Undefined, Undefined),
                  createMessage("user", "user-response", Question, Undefined, Undefined)>>
    IN  /\ ~created
        /\ created' = TRUE
        /\ status' = "gathering-context"
        /\ messages' = msgs
        /\ currentPhase' = ContinuePhase(msgs)
        /\ guidedPc' = ContinueWith(msgs)
        /\ guidedInput' = getLastBotMessage(msgs)
        /\ nested' = FALSE
        /\ lastOp' = "createConversation"
        /\ notified' = FALSE
        /\ conversationId' = NewConversationId
        /\ userId' = UserId
        /\ title' = Question
        /\ debateMode' = FALSE
        /\ UNCHANGED <<now, botConfigs, pendingTurns, socketVars>>
        /\ UNCHANGED <<bots, activeBot, debateRound, participatingBots, debatePc, turnBot,
                       concluding, guidedBot, ret, decisionVars>>

\* processUserMessage(conversationId, content, messageType) on the stored conversation
ProcessUserMessage(type) ==
    LET msgs == IF type # "user-question"
                THEN Append(messages, createMessage("user", type, "answer", Undefined, Undefined))
                ELSE messages
        initial == Len(msgs) = 1
    IN  /\ created
        /\ guidedPc = "idle"
        /\ Len(UserMessages(msgs)) <= MaxUserMessages
        /\ messages' = msgs
        /\ currentPhase' = IF initial THEN "Analyzing your question" ELSE ContinuePhase(msgs)
        /\ guidedPc' = IF initial THEN "analyze" ELSE ContinueWith(msgs)
        /\ guidedInput' = IF initial THEN NoMessage ELSE getLastBotMessage(msgs)
        /\ nested' = FALSE
        /\ lastOp' = "processUserMessage"
        /\ notified' = FALSE
        /\ UNCHANGED <<now, botConfigs, pendingTurns, identityVars, socketVars>>
        /\ UNCHANGED <<bots, created, status, activeBot, debateRound, participatingBots,
                       debatePc, turnBot, concluding, guidedBot, ret, decisionVars>>

\* variant of AskUserQuestion that goes on to a further analysis
AskUserQuestionAndContinues(d, msgs) ==
    /\ d.action = "ask-user"
    /\ status' = "gathering-context"
    /\ currentPhase' = "Waiting for your input"
    /\ messages' = Append(msgs, createMessage("moderator", "clarifying-question", d.content,
                                              Undefined, Undefined))
    /\ guidedPc' = "analyze"
    /\ lastOp' = "askUser"
    /\ UNCHANGED <<activeBot, guidedBot, nested, ret>>

\* askUserQuestion
AskUserQuestion(d, msgs) ==
    /\ d.action = "ask-user"
    /\ status' = "gathering-context"
    /\ currentPhase' = "Waiting for your input"
    /\ messages' = Append(msgs, createMessage("moderator", "clarifying-question", d.content,
                                              Undefined, Undefined))
    /\ guidedPc' = "idle"
    /\ nested' = FALSE
    /\ ret' = [kind |-> "resolved", value |-> "processUserMessage"]
    /\ lastOp' = "askUser"
    /\ UNCHANGED <<activeBot, guidedBot>>

\* variant of QueryBot that reports an unregistered target in the log
QueryBotReportsUnknown(d, msgs) ==
    /\ d.action = "query-bot"
    /\ status' = "researching"
    /\ activeBot' = d.target
    /\ IF BotFound(bots, d.target)
       THEN /\ currentPhase' = "Consulting"
            /\ messages' = Append(msgs, createMessage("moderator", "bot-query", d.content,
                                                      d.target, ModeratorModel))
            /\ guidedPc' = "query"
            /\ guidedBot' = d.target
            /\ lastOp' = "queryStart"
            /\ UNCHANGED <<nested, ret>>
       ELSE /\ messages' = Append(msgs, createMessage("system", "system-message",
                                                      QueryErrorText, Undefined, Undefined))
            /\ guidedPc' = "idle"
            /\ nested' = FALSE
            /\ ret' = [kind |-> "resolved", value |-> "processUserMessage"]
            /\ lastOp' = "queryAbort"
            /\ UNCHANGED <<currentPhase, guidedBot>>

\* variant of QueryBot that awaits the specialist without logging the query
QueryBotUnlogged(d, msgs) ==
    /\ d.action = "query-bot"
    /\ status' = "researching"
    /\ activeBot' = d.target
    /\ messages' = msgs
    /\ IF BotFound(bots, d.target)
       THEN /\ currentPhase' = "Consulting"
            /\ guidedPc' = "query"
            /\ guidedBot' = d.target
            /\ lastOp' = "queryStart"
            /\ UNCHANGED <<nested, ret>>
       ELSE /\ guidedPc' = "idle"
            /\ nested' = FALSE
            /\ ret' = [kind |-> "resolved", value |-> "processUserMessage"]
            /\ lastOp' = "queryAbort"
            /\ UNCHANGED <<currentPhase, guidedBot>>

\* queryBot up to its await, or its early return when the target is not registered
QueryBot(d, msgs) ==
    /\ d.action = "query-bot"
    /\ status' = "researching"
    /\ activeBot' = d.target
    /\ IF BotFound(bots, d.target)
       THEN /\ currentPhase' = "Consulting"
            /\ messages' = Append(msgs, createMessage("moderator", "bot-query", d.content,
                                                      d.target, ModeratorModel))
            /\ guidedPc' = "query"
            /\ guidedBot' = d.target
            /\ lastOp' = "queryStart"
            /\ UNCHANGED <<nested, ret>>
       ELSE /\ messages' = msgs
            /\ guidedPc' = "idle"
            /\ nested' = FALSE
            /\ ret' = [kind |-> "resolved", value |-> "processUserMessage"]
            /\ lastOp' = "queryAbort"
            /\ UNCHANGED <<currentPhase, guidedBot>>

\* synthesizeReport up to its await
SynthesisStarts(d, msgs) ==
    /\ d.action = "synthesize-report"
    /\ status' = "synthesizing"
    /\ currentPhase' = "Preparing your report"
    /\ messages' = msgs
    /\ guidedPc' = "synth"
    /\ lastOp' = "synthStart"
    /\ UNCHANGED <<activeBot, guidedBot, nested, ret>>

\* the decision with the reasoning the moderator gave for it
WithReasoning(d, reasoning) ==
    [action |-> d.action, target |-> d.target, content |-> d.content, reasoning |-> reasoning]

\* variant of ModeratorDecides that executes the decision without the thinking message
ModeratorDecidesSilently(reply) ==
    LET d == IF guidedPc = "analyze" THEN analyzeQuestion(reply) ELSE processBotResponse(reply)
        reasoning == IF guidedPc = "analyze" THEN analyzeReasoning(reply)
                     ELSE followUpReasoning(reply)
    IN  /\ guidedPc \in {"analyze", "followup"}
        /\ guidedPc = "analyze" => reply \in GuidedInitialReplies
        /\ guidedPc = "followup" => reply \in GuidedFollowUpReplies
        /\ CountType(messages, "moderator-thinking") < MaxDecisions
        /\ decision' = WithReasoning(d, reasoning)
        /\ guidedInput' = NoMessage
        /\ notified' = FALSE
        /\ UNCHANGED <<now, botConfigs, pendingTurns, identityVars, socketVars>>
        /\ \/ AskUserQuestion(d, messages)
           \/ QueryBot(d, messages)
           \/ SynthesisStarts(d, messages)
        /\ UNCHANGED <<bots, created, debateRound, participatingBots, debatePc, turnBot,
                       concluding, text>>

\* the moderator answers the analysis: the decision is extracted and
\* executeModeratorDecision pushes the thinking message and dispatches
ModeratorDecides(reply) ==
    LET d == IF guidedPc = "analyze" THEN analyzeQuestion(reply) ELSE processBotResponse(reply)
        reasoning == IF guidedPc = "analyze" THEN analyzeReasoning(reply)
                     ELSE followUpReasoning(reply)
        msgs == Append(messages, createMessage("moderator", "moderator-thinking", reasoning,
                                               Undefined, ModeratorModel))
    IN  /\ guidedPc \in {"analyze", "followup"}
        /\ guidedPc = "analyze" => reply \in GuidedInitialReplies
        /\ guidedPc = "followup" => reply \in GuidedFollowUpReplies
        /\ CountType(messages, "moderator-thinking") < MaxDecisions
        /\ decision' = WithReasoning(d, reasoning)
        /\ guidedInput' = NoMessage
        /\ notified' = FALSE
        /\ UNCHANGED <<now, botConfigs, pendingTurns, identityVars, socketVars>>
        /\ \/ AskUserQuestion(d, msgs)
           \/ QueryBot(d, msgs)
           \/ SynthesisStarts(d, msgs)
        /\ UNCHANGED <<bots, created, debateRound, participatingBots, debatePc, turnBot,
                       concluding, text>>

\* variant of QueryReturns that ends the chain after pushing the reply
QueryReturnsAndStops(reply) ==
    /\ guidedPc = "query"
    /\ messages' = Append(messages, createMessage("bot", "bot-response", reply, guidedBot,
                                                  ModelOf(guidedBot)))
    /\ guidedPc' = "idle"
    /\ guidedBot' = Undefined
    /\ nested' = FALSE
    /\ ret' = [kind |-> "resolved", value |-> "processUserMessage"]
    /\ lastOp' = "queryOk"
    /\ notified' = FALSE
    /\ UNCHANGED <<now, botConfigs, pendingTurns, identityVars, socketVars>>
    /\ UNCHANGED <<bots, created, status, currentPhase, activeBot, debateRound,
                   participatingBots, debatePc, turnBot, concluding, guidedInput, decisionVars>>

\* answerQuery resolves in queryBot: the reply is pushed and continueConversation
\* asks the moderator for the follow-up analysis
QueryReturns(reply) ==
    LET msgs == Append(messages, createMessage("bot", "bot-response", reply, guidedBot,
                                               ModelOf(guidedBot)))
    IN  /\ guidedPc = "query"
        /\ messages' = msgs
        /\ currentPhase' = ContinuePhase(msgs)
        /\ guidedPc' = ContinueWith(msgs)
        /\ guidedInput' = getLastBotMessage(msgs)
        /\ guidedBot' = Undefined
        /\ nested' = TRUE
        /\ lastOp' = "queryOk"
        /\ notified' = FALSE
        /\ UNCHANGED <<now, botConfigs, pendingTurns, identityVars, socketVars>>
        /\ UNCHANGED <<bots, created, status, activeBot, debateRound, participatingBots,
                       debatePc, turnBot, concluding, ret, decisionVars>>

\* variant of QueryFails that lets the failure escape to the caller
QueryFailsAndRaises ==
    /\ guidedPc = "query"
    /\ messages' = Append(messages, createMessage("system", "system-message", QueryErrorText,
                                                  Undefined, Undefined))
    /\ guidedPc' = "idle"
    /\ guidedBot' = Undefined
    /\ nested' = FALSE
    /\ ret' = [kind |-> "raised", value |-> "processUserMessage"]
    /\ lastOp' = "queryFail"
    /\ notified' = FALSE
    /\ UNCHANGED <<now, botConfigs, pendingTurns, identityVars, socketVars>>
    /\ UNCHANGED <<bots, created, status, currentPhase, activeBot, debateRound,
                   participatingBots, debatePc, turnBot, concluding, guidedInput, decisionVars>>

\* answerQuery rejects in queryBot: the catch block
QueryFails ==
    /\ guidedPc = "query"
    /\ messages' = Append(messages, createMessage("system", "system-message", QueryErrorText,
                                                  Undefined, Undefined))
    /\ guidedPc' = "idle"
    /\ guidedBot' = Undefined
    /\ nested' = FALSE
    /\ ret' = [kind |-> "resolved", value |-> "processUserMessage"]
    /\ lastOp' = "queryFail"
    /\ notified' = FALSE
    /\ UNCHANGED <<now, botConfigs, pendingTurns, identityVars, socketVars>>
    /\ UNCHANGED <<bots, created, status, currentPhase, activeBot, debateRound,
                   participatingBots, debatePc, turnBot, concluding, guidedInput, decisionVars>>

\* a call of the moderator (analysis or report) rejects: nothing catches it
\* but the catch block of an enclosing queryBot
ModeratorFails ==
    /\ guidedPc \in {"analyze", "followup", "synth"}
    /\ guidedPc' = "idle"
    /\ guidedInput' = NoMessage
    /\ nested' = FALSE
    /\ IF nested
       THEN /\ messages' = Append(messages, createMessage("system", "system-message",
                                                          QueryErrorText, Undefined, Undefined))
            /\ ret' = [kind |-> "resolved", value |-> "processUserMessage"]
            /\ lastOp' = "moderatorFailCaught"
       ELSE /\ messages' = messages
            /\ ret' = [kind |-> "raised", value |-> "processUserMessage"]
            /\ lastOp' = "moderatorFailRaised"
    /\ notified' = FALSE
    /\ UNCHANGED <<now, botConfigs, pendingTurns, identityVars, socketVars>>
    /\ UNCHANGED <<bots, created, status, currentPhase, activeBot, debateRound,
                   participatingBots, debatePc, turnBot, concluding, guidedBot, decisionVars>>

\* variant of SynthesisReturns that leaves activeBot as it was
SynthesisReturnsKeepsActiveBot(report) ==
    /\ guidedPc = "synth"
    /\ messages' = Append(messages, createMessage("moderator", "final-report", report,
                                                  Undefined, ModeratorModel))
    /\ status' = "completed"
    /\ currentPhase' = "Complete"
    /\ guidedPc' = "idle"
    /\ nested' = FALSE
    /\ ret' = [kind |-> "resolved", value |-> "processUserMessage"]
    /\ lastOp' = "synthOk"
    /\ notified' = FALSE
    /\ UNCHANGED <<now, botConfigs, pendingTurns, identityVars, socketVars>>
    /\ UNCHANGED <<bots, created, activeBot, debateRound, participatingBots, debatePc, turnBot,
                   concluding, guidedBot, guidedInput, decisionVars>>

\* the moderator's report arrives in synthesizeReport
SynthesisReturns(report) ==
    /\ guidedPc = "synth"
    /\ messages' = Append(messages, createMessage("moderator", "final-report", report,
                                                  Undefined, ModeratorModel))
    /\ status' = "completed"
    /\ currentPhase' = "Complete"
    /\ activeBot' = Undefined
    /\ guidedPc' = "idle"
    /\ nested' = FALSE
    /\ ret' = [kind |-> "resolved", value |-> "processUserMessage"]
    /\ lastOp' = "synthOk"
    /\ notified' = FALSE
    /\ UNCHANGED <<now, botConfigs, pendingTurns, identityVars, socketVars>>
    /\ UNCHANGED <<bots, created, debateRound, participatingBots, debatePc, turnBot,
                   concluding, guidedBot, guidedInput, decisionVars>>

NextGuided ==
    \/ CreateGuided
    \/ \E type \in UserMessageTypes : ProcessUserMessage(type)
    \/ \E reply \in GuidedInitialReplies \cup GuidedFollowUpReplies : ModeratorDecides(reply)
    \/ \E reply \in ReplyTexts : QueryReturns(reply)
    \/ QueryFails
    \/ ModeratorFails
    \/ \E report \in ReportTexts : SynthesisReturns(report)

SpecGuided == Init /\ [][NextGuided]_vars

(***************************************************************************)
(* The text handed to an agent, as the sequence of messages it is built    *)
(* from.                                                                   *)
(***************************************************************************)
DebateContextSize == 6

\* array.slice(-n)
LastN(seq, n) == SubSeq(seq, Max({1, Len(seq) - n + 1}), Len(seq))

\* buildDebateContext: the last 6 bot-response messages
buildDebateContext(msgs) == LastN(BotResponses(msgs), DebateContextSize)

\* ModeratorBot.buildConversationContext: every message but the system-messages
buildConversationContext(msgs) == SelectSeq(msgs, LAMBDA m : m.type # "system-message")

\* generateConclusion: debateHistory and conclusionPrompt are built and dropped,
\* the moderator gets synthesizeReport(conversation)
ConclusionInput(msgs) == buildConversationContext(msgs)

(***************************************************************************)
(* The service as a whole: one conversation, created in either mode, under *)
(* every interleaving of the public operations, the debate loop, the       *)
(* guided call chain and the clock.                                        *)
(***************************************************************************)
MaxLog == 4             \* messages in the log plus ticks of the clock

\* messageType arguments of processUserMessage: the one that is not pushed and
\* one that is
ServiceMessageTypes == {"user-question", "final-report"}

\* replies of the moderator: consult a specialist, ask the user, write the report
ServiceReplies ==
    { <<LBrace, Tok("needsClarification", "false", 0),
        ListTok("botsToConsult", <<"technical-expert", "code-specialist">>),
        Tok("reasoning", "a technical question", 0), RBrace>>,
      <<LBrace, Tok("action", "ask-user", 0), Tok("question", "clarify?", 0),
        Tok("confidence", "", 10), RBrace>>,
      <<Word, LBrace, Tok("action", "synthesize-report", 0), RBrace>> }

\* Date.now() advances
Tick ==
    /\ now' = now + 1
    /\ UNCHANGED <<convVars, guidedVars, decisionVars, lastOp, ret, notified, botConfigs,
                   pendingTurns, identityVars, socketVars>>

Within == Len(messages') + now' <= MaxLog

NextService ==
    \/ CreateDebate(TRUE, 1) /\ Within
    \/ CreateGuided /\ Within
    \/ TimerFires /\ Within
    \/ \E reply \in ReplyTexts : TurnSucceeds(reply) /\ Within
    \/ TurnFails /\ Within
    \/ StopDebate /\ Within
    \/ ConclusionStarts /\ Within
    \/ ConclusionReturns("report-a") /\ Within
    \/ ConclusionFails /\ Within
    \/ \E type \in ServiceMessageTypes : ProcessUserMessage(type) /\ Within
    \/ \E reply \in ServiceReplies : ModeratorDecides(reply) /\ Within
    \/ \E reply \in ReplyTexts : QueryReturns(reply) /\ Within
    \/ QueryFails /\ Within
    \/ ModeratorFails /\ Within
    \/ SynthesisReturns("report-a") /\ Within
    \/ Tick /\ Within

SpecService == Init /\ [][NextService]_vars

(***************************************************************************)
(* The external operations addressed to an id that is not in the store.    *)
(***************************************************************************)
\* the result of each operation when conversations.get(id) is undefined
UnknownIdResult(op) ==
    IF op = "stopDebate" THEN [kind |-> "resolved", value |-> op]
    ELSE [kind |-> "raised", value |-> "Conversation not found"]

UnknownIdOps == {"processUserMessage", "stopDebate", "generateConclusion"}

UnknownId(op) ==
    /\ lastOp' = "unknownId"
    /\ ret' = UnknownIdResult(op)
    /\ notified' = FALSE
    /\ UNCHANGED <<now, botConfigs, pendingTurns, identityVars, socketVars>>
    /\ UNCHANGED <<convVars, guidedVars, decisionVars>>

(***************************************************************************)
(* The calls that touch no stored conversation: addBot(config) with any id *)
(* and model, and the operations addressed to an unknown conversation id.  *)
(***************************************************************************)
AddBotModels == {"openai/gpt-4o", "anthropic/claude-3-opus"}

DuplicateBot(id) == [kind |-> "raised", value |-> id]

\* variant of AddBot that stores the new instance under an id already in use
AddBotOverwrites(id, model) ==
    /\ bots' = IF BotFound(bots, id) THEN bots ELSE Append(bots, id)
    /\ botConfigs' = [botConfigs EXCEPT ![id] = model]
    /\ ret' = [kind |-> "resolved", value |-> id]
    /\ lastOp' = "addBot"
    /\ UNCHANGED <<created, status, currentPhase, activeBot, messages, debateRound,
                   participatingBots, debatePc, turnBot, concluding, notified, now,
                   pendingTurns, identityVars, socketVars, guidedVars, decisionVars>>

\* addBot: throws when bots.has(config.id), else bots.set(config.id, createBot(config))
AddBot(id, model) ==
    /\ IF BotFound(bots, id)
       THEN /\ ret' = DuplicateBot(id)
            /\ UNCHANGED <<bots, botConfigs>>
       ELSE /\ bots' = Append(bots, id)
            /\ botConfigs' = [botConfigs EXCEPT ![id] = model]
            /\ ret' = [kind |-> "resolved", value |-> id]
    /\ lastOp' = "addBot"
    /\ UNCHANGED <<created, status, currentPhase, activeBot, messages, debateRound,
                   participatingBots, debatePc, turnBot, concluding, notified, now,
                   pendingTurns, identityVars, socketVars, guidedVars, decisionVars>>

NextRegistry ==
    \/ \E id \in AllBotIds, model \in AddBotModels : AddBot(id, model)
    \/ \E op \in UnknownIdOps : UnknownId(op)

SpecRegistry == Init /\ [][NextRegistry]_vars

(***************************************************************************)
(* Conversations created one after another on the same service.  Of an     *)
(* earlier conversation only what it leaves in the shared BotRegistry is   *)
(* kept: the instances it registered for its model selections.             *)
(***************************************************************************)
\* the ids createConversation has not registered yet
Unregistered(reg) == SelectSeq(DynamicBots, LAMBDA b : ~BotFound(reg, b))

\* createConversation(userId, question, true, selectedModels) of an earlier
\* conversation: addBot for each of the n selected instances
EarlierDebate(n) ==
    LET parts == SubSeq(Unregistered(bots), 1, n)
    IN  /\ ~created
        /\ n <= Len(Unregistered(bots))
        /\ Len(bots) + n <= Len(DefaultBots) + MaxDynamicBots
        /\ bots' = bots \o parts
        /\ botConfigs' = [id \in AllBotIds |->
                            IF id \in SeqToSet(parts) THEN ModelOf(id) ELSE botConfigs[id]]
        /\ lastOp' = "createEarlier"
        /\ notified' = FALSE
        /\ UNCHANGED <<created, status, currentPhase, activeBot, messages, debateRound,
                       participatingBots, debatePc, turnBot, concluding, ret, now,
                       pendingTurns, identityVars, socketVars, guidedVars, decisionVars>>

NextSuccessive ==
    \/ \E n \in 1..MaxDynamicBots : EarlierDebate(n)
    \/ CreateDebate(FALSE, 0)
    \/ TimerFires
    \/ \E reply \in ReplyTexts : TurnSucceeds(reply)
    \/ TurnFails
    \/ StopDebate

SpecSuccessive == Init /\ [][NextSuccessive]_vars

(***************************************************************************)
(* WebSocketService (frontend/src/services/websocket.service.ts), the      *)
(* singleton the Conversation component connects in an effect keyed by the *)
(* conversation id and disconnects in the effect's cleanup.  A socket is   *)
(* "open" from its creation, "closing" once close() was called on it, and  *)
(* "closed" when its close event has been delivered.                       *)
(***************************************************************************)
MaxSockets == 3         \* WebSocket objects created

maxReconnectAttempts == 5

\* the id of the temporary conversation App shows first, and the stored one's
DisplayedIds == {"temp-1", NewConversationId}

\* ws.close() on the socket referred to, if any
closeSocket(socks, ref) ==
    IF ref = 0 THEN socks ELSE [socks EXCEPT ![ref].readyState = "closing"]

\* the sockets whose connection is up
LiveSockets == {i \in DOMAIN sockets : sockets[i].readyState = "open"}

\* connect(conversationId): returns when already connected to that id, else
\* disconnect() and a new WebSocket
connect(id) ==
    IF ws # 0 /\ wsConversationId = id
    THEN UNCHANGED <<sockets, ws, wsConversationId, reconnectAttempts>>
    ELSE /\ Len(sockets) < MaxSockets
         /\ sockets' = Append(closeSocket(sockets, ws), [conversationId |-> id, readyState |-> "open"])
         /\ ws' = Len(sockets) + 1
         /\ wsConversationId' = id
         /\ reconnectAttempts' = 0

\* the effect of the Conversation component runs for a conversation id
Connect(id) ==
    /\ connect(id)
    /\ lastOp' = "connect"
    /\ UNCHANGED <<convVars, guidedVars, decisionVars, ret, notified, now, botConfigs,
                   pendingTurns, identityVars, reconnectTimers>>

\* disconnect(), the cleanup of the effect
Disconnect ==
    /\ sockets' = closeSocket(sockets, ws)
    /\ ws' = 0
    /\ wsConversationId' = Undefined
    /\ reconnectAttempts' = 0
    /\ lastOp' = "disconnect"
    /\ UNCHANGED <<convVars, guidedVars, decisionVars, ret, notified, now, botConfigs,
                   pendingTurns, identityVars, reconnectTimers>>

\* the close event of socket i is delivered (after close(), or because the
\* connection dropped): its onclose handler
SocketCloses(i) ==
    /\ sockets[i].readyState \in {"open", "closing"}
    /\ sockets' = [sockets EXCEPT ![i].readyState = "closed"]
    /\ ws' = 0
    /\ IF reconnectAttempts < maxReconnectAttempts
       THEN /\ reconnectAttempts' = reconnectAttempts + 1
            /\ reconnectTimers' = reconnectTimers + 1
       ELSE UNCHANGED <<reconnectAttempts, reconnectTimers>>
    /\ lastOp' = "onclose"
    /\ UNCHANGED <<convVars, guidedVars, decisionVars, ret, notified, now, botConfigs,
                   pendingTurns, identityVars, wsConversationId>>

\* the setTimeout callback of onclose
ReconnectTimerFires ==
    /\ reconnectTimers > 0
    /\ reconnectTimers' = reconnectTimers - 1
    /\ IF wsConversationId # Undefined
       THEN connect(wsConversationId)
       ELSE UNCHANGED <<sockets, ws, wsConversationId, reconnectAttempts>>
    /\ lastOp' = "reconnect"
    /\ UNCHANGED <<convVars, guidedVars, decisionVars, ret, notified, now, botConfigs,
                   pendingTurns, identityVars>>

NextSocket ==
    \/ \E id \in DisplayedIds : Connect(id)
    \/ Disconnect
    \/ \E i \in DOMAIN sockets : SocketCloses(i)
    \/ ReconnectTimerFires

SpecSocket == Init /\ [][NextSocket]_vars

(***************************************************************************)
(* Properties of the debate scheduler, stopDebate and generateConclusion   *)
(* (checked under Spec).                                                   *)
(***************************************************************************)
StopMessage == createMessage("system", "system-message", StopText, Undefined, Undefined)
Last(msgs) == msgs[Len(msgs)]

\* C1: round-robin law: the (n+1)-th bot-response of the log is by
\* participatingBots[n mod k], whatever stops, conclusions and failed agent
\* calls are interleaved with the turns.
C1_RoundRobin ==
    LET br == BotResponses(messages)
        k == Len(participatingBots)
    IN  \A n \in DOMAIN br :
            k >= 1 /\ br[n].botId = participatingBots[((n - 1) % k) + 1]

C1_Witness ==
    LET br == BotResponses(messages)
    IN  /\ Len(participatingBots) = 2
        /\ Len(br) >= 4
        /\ <<br[1].botId, br[2].botId, br[3].botId, br[4].botId>>
             = <<participatingBots[1], participatingBots[2], participatingBots[1], participatingBots[2]>>
        /\ CountContent(messages, TurnErrorText) >= 1
        /\ CountContent(messages, StopText) >= 1

\* C2 as stated: after every debate turn, succeeded or failed, debateRound is
\* ceil(#bot-responses / #participatingBots).
C2_RoundAfterEveryTurn ==
    lastOp \in {"turnOk", "turnFail"}
        => debateRound = CeilDiv(Len(BotResponses(messages)), Len(participatingBots))

\* C2 amended: a turn whose agent call succeeded leaves debateRound =
\* ceil(#bot-responses / #participatingBots); a turn whose agent call failed
\* leaves debateRound unchanged (so it is 1 while no bot-response exists).
C2_RoundAfterTurn ==
    [][ /\ lastOp' = "turnOk"
            => debateRound' = CeilDiv(Len(BotResponses(messages')), Len(participatingBots'))
        /\ lastOp' = "turnFail" => debateRound' = debateRound ]_vars

C2_Witness ==
    /\ lastOp = "turnOk"
    /\ Len(participatingBots) = 2
    /\ Len(BotResponses(messages)) = 3
    /\ debateRound = 2
    /\ CountContent(messages, TurnErrorText) >= 1

\* C3 as stated: once stopDebate has been applied, no new debate turn starts
\* (a turn that has just started finds no stop message in the log).
C3_NoTurnStartsAfterStop ==
    lastOp = "turnStart" => CountContent(messages, StopText) = 0

\* C4: cooperative stop: when the agent call of a turn that was in flight at
\* the stop returns, its reply is appended as a bot-response after the stop
\* message, status stays stopped and no further turn is scheduled.
C4_CooperativeStop ==
    [][ (debatePc = "inflight" /\ status = "stopped" /\ lastOp' = "turnOk")
        => /\ \E r \in ReplyTexts :
                messages' = Append(messages, createMessage("bot", "bot-response", r, turnBot, ModelOf(turnBot)))
           /\ CountContent(messages, StopText) > 0
           /\ status' = "stopped"
           /\ debatePc' = "idle" ]_vars

C4_Witness ==
    /\ lastOp = "turnOk"
    /\ status = "stopped"
    /\ debatePc = "idle"
    /\ Len(messages) >= 2
    /\ Last(messages).type = "bot-response"
    /\ messages[Len(messages) - 1] = StopMessage

\* C5: stopDebate, from any prior status, sets status = stopped and
\* currentPhase = 'Debate stopped', clears activeBot and appends exactly one
\* system-message as the last message, the earlier messages unchanged.
C5_StopDebate ==
    [][ lastOp' = "stopDebate"
        => /\ status' = "stopped"
           /\ currentPhase' = "Debate stopped"
           /\ activeBot' = Undefined
           /\ Len(messages') = Len(messages) + 1
           /\ SubSeq(messages', 1, Len(messages)) = messages
           /\ Last(messages').type = "system-message"
           /\ Last(messages').role = "system" ]_vars

C5_Witness ==
    /\ lastOp = "stopDebate"
    /\ status = "stopped"
    /\ activeBot = Undefined
    /\ debatePc = "inflight"
    /\ CountType(messages, "final-report") >= 1
    /\ Last(messages) = StopMessage

\* C6 as stated: stopDebate on a stopped conversation leaves status stopped
\* and the message log as it was.
C6_StopAppendsNothing ==
    [][ (status = "stopped" /\ lastOp' = "stopDebate")
        => (status' = "stopped" /\ messages' = messages) ]_vars

\* C6 amended: stopDebate on a stopped conversation leaves status stopped and
\* appends one more stop system-message to the log.
C6_StopAppendsAgain ==
    [][ (status = "stopped" /\ lastOp' = "stopDebate")
        => (status' = "stopped" /\ messages' = Append(messages, StopMessage)) ]_vars

C6_Witness ==
    /\ lastOp = "stopDebate"
    /\ status = "stopped"
    /\ Len(messages) >= 2
    /\ Last(messages) = StopMessage
    /\ messages[Len(messages) - 1] = StopMessage

\* C7: generateConclusion sets status = synthesizing before the moderator is
\* called; when the call returns it appends exactly one final-report of role
\* moderator carrying the text, sets status = completed and returns the text.
C7_GenerateConclusion ==
    [][ /\ lastOp' = "concludeStart"
            => /\ status' = "synthesizing"
               /\ concluding' = concluding + 1
               /\ messages' = messages
        /\ lastOp' = "concludeReturn"
            => /\ Len(messages') = Len(messages) + 1
               /\ SubSeq(messages', 1, Len(messages)) = messages
               /\ Last(messages').type = "final-report"
               /\ Last(messages').role = "moderator"
               /\ ret'.kind = "returned"
               /\ ret'.value \in ReportTexts
               /\ Last(messages').content = ret'.value
               /\ status' = "completed" ]_vars

C7_Witness ==
    /\ lastOp = "concludeReturn"
    /\ status = "completed"
    /\ Last(messages).type = "final-report"
    /\ ret = [kind |-> "returned", value |-> Last(messages).content]

\* C8: a failed agent call of a debate turn appends exactly one
\* system-message and no bot-response, the turn's promise resolves, and the
\* next turn is scheduled when status is still debating.
C8_TurnFailure ==
    [][ lastOp' = "turnFail"
        => /\ Len(messages') = Len(messages) + 1
           /\ SubSeq(messages', 1, Len(messages)) = messages
           /\ Last(messages').type = "system-message"
           /\ ret'.kind = "resolved"
           /\ (status' = "debating" => debatePc' = "timer") ]_vars

C8_Witness ==
    /\ lastOp = "turnFail"
    /\ status = "debating"
    /\ debatePc = "timer"
    /\ Last(messages).type = "system-message"
    /\ CountType(messages, "bot-response") >= 1

(***************************************************************************)
(* Properties of the decision engine (checked under SpecDecision).         *)
(***************************************************************************)
Decided == lastOp = "processBotResponse"

\* the segments of a reply that are an object text surrounded by prose only
IsObjectText(s) ==
    /\ Len(s) >= 2
    /\ s[1] = LBrace
    /\ s[Len(s)] = RBrace
    /\ \A i \in 2..(Len(s) - 1) : IsMember(s[i])

WrappedObjects(s) ==
    {ij \in (DOMAIN s) \X (DOMAIN s) :
        /\ ij[1] < ij[2]
        /\ IsObjectText(SubSeq(s, ij[1], ij[2]))
        /\ \A m \in DOMAIN s : (m < ij[1] \/ m > ij[2]) => ~IsMember(s[m])}

\* ... with no "{" in the prose before and no "}" in the prose after
CleanlyWrappedObjects(s) ==
    {ij \in WrappedObjects(s) :
        \A m \in DOMAIN s : /\ m < ij[1] => s[m] # LBrace
                            /\ m > ij[2] => s[m] # RBrace}

MembersOf(s, ij) == SubSeq(s, ij[1] + 1, ij[2] - 1)

LowConfidence(members) ==
    Has(members, "confidence") /\ Member(members, "confidence").n <= ConfidenceThreshold

\* C9: confidence override: a parsed reply with confidence > 80 gives
\* synthesize-report whatever action it declares; with confidence <= 80 and
\* a declared action other than synthesize-report the decision is not
\* synthesize-report.
C9_ConfidenceOverride ==
    LET parsed == extractJSON(text)
        m == parsed.members
    IN  (Decided /\ parsed.ok /\ parsed.kind = "object")
        => /\ (Has(m, "confidence") /\ Member(m, "confidence").n > ConfidenceThreshold)
                => decision.action = "synthesize-report"
           /\ (LowConfidence(m) /\ Get(m, "action") # "synthesize-report")
                => decision.action # "synthesize-report"

C9_Witness ==
    /\ Decided
    /\ text = <<LBrace, Tok("action", "continue-research", 0),
                Tok("nextBot", "technical-expert", 0), Tok("confidence", "", 95), RBrace>>
    /\ decision.action = "synthesize-report"

FollowUpMapping(m, d) ==
    LowConfidence(m)
    => /\ Get(m, "action") = "ask-user"
            => (d.action = "ask-user" /\ d.content = Get(m, "question"))
       /\ Get(m, "action") = "continue-research"
            => (d.action = "query-bot" /\ d.target = Get(m, "nextBot"))

\* C10 as stated: a follow-up object with confidence <= 80, bare or wrapped
\* in any surrounding prose, maps ask-user to {ask-user, content: question}
\* and continue-research to {query-bot, target: nextBot}.
C10_FollowUpMappingAnyProse ==
    Decided => \A ij \in WrappedObjects(text) : FollowUpMapping(MembersOf(text, ij), decision)

\* C10 amended: the same, for surrounding prose that has no "{" before the
\* object and no "}" after it.
C10_FollowUpMapping ==
    Decided => \A ij \in CleanlyWrappedObjects(text) : FollowUpMapping(MembersOf(text, ij), decision)

C10_Witness ==
    /\ Decided
    /\ text = <<Word, LBrace, Tok("action", "ask-user", 0), Tok("question", "clarify?", 0),
                Tok("confidence", "", 10), RBrace>>
    /\ decision = Decision("ask-user", Undefined, "clarify?")

Analyzed == lastOp = "analyzeQuestion"

\* C11 as stated: in follow-up analysis a reply that lacks a required field
\* gives synthesize-report: the decision is never a query-bot without a
\* target nor an ask-user without content.
C11_FollowUpNeverPartial ==
    Decided => /\ ~(decision.action = "query-bot" /\ decision.target = Undefined)
               /\ ~(decision.action = "ask-user" /\ decision.content = Undefined)

\* C12: in initial analysis a reply that cannot be parsed as JSON gives
\* {query-bot, target: 'search-specialist', content: the question}.
C12_InitialFallback ==
    (Analyzed /\ ~extractJSON(text).ok)
        => decision = [action |-> "query-bot", target |-> "search-specialist", content |-> Question]

C12_Witness ==
    /\ Analyzed
    /\ text = <<Word, LBrace, Tok("needsClarification", "true", 0)>>
    /\ decision.action = "query-bot"
    /\ decision.target = "search-specialist"

\* C13 as stated: for every reply analyzeQuestion returns a structurally
\* valid decision: one of the four actions, content present, and target
\* present when the action is query-bot.
C13_InitialDecisionValid ==
    Analyzed => /\ decision.action \in {"ask-user", "query-bot", "synthesize-report", "continue-research"}
                /\ decision.content # Undefined
                /\ decision.action = "query-bot" => decision.target # Undefined

(***************************************************************************)
(* Properties of the guided flow, checked under SpecGuided (C19 under      *)
(* SpecRegistry).                                                          *)
(***************************************************************************)
SystemMessage(content) == createMessage("system", "system-message", content, Undefined, Undefined)
Thinking(reasoning) ==
    createMessage("moderator", "moderator-thinking", reasoning, Undefined, ModeratorModel)

\* C14: a query-bot decision on a registered target appends a bot-query for
\* that target and suspends on the agent; when the agent answers, a
\* bot-response carrying the target's botId and model is appended right after
\* the bot-query, and in the same step the follow-up analysis is requested on
\* that reply, so the chain goes on without a user message until a decision
\* other than query-bot is executed.
C14_QueryThenFollowUp ==
    [][ /\ lastOp' = "queryStart" =>
            /\ BotFound(bots, decision'.target)
            /\ Last(messages').type = "bot-query"
            /\ Last(messages').botId = decision'.target
            /\ guidedPc' = "query"
        /\ lastOp' = "queryOk" =>
            /\ Last(messages).type = "bot-query"
            /\ Len(messages') = Len(messages) + 1
            /\ SubSeq(messages', 1, Len(messages)) = messages
            /\ Last(messages').type = "bot-response"
            /\ Last(messages').role = "bot"
            /\ Last(messages').botId = Last(messages).botId
            /\ Last(messages').modelName = ModelOf(Last(messages).botId)
            /\ guidedPc' = "followup"
            /\ guidedInput' = Last(messages')
        /\ (guidedPc = "followup" /\ guidedPc' = "idle") =>
            lastOp' \in {"askUser", "queryAbort", "moderatorFailCaught", "moderatorFailRaised"}
      ]_vars

C14_Witness ==
    /\ lastOp = "queryOk"
    /\ guidedPc = "followup"
    /\ CountType(messages, "bot-response") = 2
    /\ CountType(messages, "user-response") = 1

\* C15: when the target of a query-bot decision is not registered, the log
\* gains only the moderator-thinking message of the decision (no bot-query,
\* bot-response or system-message), no agent call is pending, the caller's
\* promise resolves and the chain ends.
C15_UnknownTargetAborts ==
    [][ lastOp' = "queryAbort" =>
            /\ ~BotFound(bots, decision'.target)
            /\ messages' = Append(messages, Thinking(decision'.reasoning))
            /\ guidedPc' = "idle"
            /\ ret'.kind = "resolved"
      ]_vars

C15_Witness ==
    /\ lastOp = "queryAbort"
    /\ activeBot = UnknownBot
    /\ Last(messages).type = "moderator-thinking"

\* C16: when the specialist's call fails in queryBot, the log gains exactly
\* one system-message and no bot-response, no follow-up analysis is requested,
\* no decision is derived, and the caller's promise resolves.
C16_QueryFailure ==
    [][ lastOp' = "queryFail" =>
            /\ messages' = Append(messages, SystemMessage(QueryErrorText))
            /\ guidedPc' = "idle"
            /\ decision' = decision
            /\ ret'.kind = "resolved"
      ]_vars

C16_Witness ==
    /\ lastOp = "queryFail"
    /\ Last(messages).type = "system-message"
    /\ guidedPc = "idle"

\* C17: every failure of a call of the moderator (initial analysis, follow-up
\* analysis, report synthesis) appends a system-message and is not raised to
\* the caller.
C17_ModeratorFailuresCaught ==
    [][ lastOp' \in {"moderatorFailCaught", "moderatorFailRaised"} =>
            /\ messages' = Append(messages, SystemMessage(QueryErrorText))
            /\ ret'.kind # "raised"
      ]_vars

\* C18: executing a synthesize-report decision sets the status to
\* synthesizing; when the report arrives exactly one final-report message with
\* role moderator is appended, the status becomes completed, the phase
\* "Complete", and activeBot is cleared.
C18_SynthesizeReport ==
    [][ /\ lastOp' = "synthStart" => (status' = "synthesizing" /\ guidedPc' = "synth")
        /\ lastOp' = "synthOk" =>
            /\ Len(messages') = Len(messages) + 1
            /\ SubSeq(messages', 1, Len(messages)) = messages
            /\ Last(messages').type = "final-report"
            /\ Last(messages').role = "moderator"
            /\ status' = "completed"
            /\ currentPhase' = "Complete"
            /\ activeBot' = Undefined
      ]_vars

C18_Witness ==
    /\ lastOp = "synthOk"
    /\ status = "completed"
    /\ CountType(messages, "final-report") = 1
    /\ CountType(messages, "bot-response") >= 1

\* C19: every operation addressed to an unknown conversation id raises a
\* conversation-not-found error to its caller and leaves the store unchanged.
C19_UnknownIdRaises ==
    [][ lastOp' = "unknownId" =>
            /\ ret' = [kind |-> "raised", value |-> "Conversation not found"]
            /\ UNCHANGED convVars
      ]_vars

\* C20: the notification callback is invoked at the end of every debate turn,
\* failed or successful, of stopDebate and of generateConclusion.
C20_NotifiedAfterMutation ==
    [][ lastOp' \in {"turnOk", "turnFail", "stopDebate", "concludeReturn"} => notified' ]_vars

(***************************************************************************)
(* Properties of the registry, checked under SpecRegistry.                 *)
(***************************************************************************)
\* C21: addBot with an id already registered raises and leaves the registry
\* as it was; with a fresh id the registry gains exactly that entry; so an id,
\* once registered, keeps the instance of its first registration.
C21_AddBotRejectsDuplicates ==
    [][ lastOp' = "addBot" =>
            /\ IF BotFound(bots, ret'.value)
               THEN ret'.kind = "raised" /\ bots' = bots /\ botConfigs' = botConfigs
               ELSE /\ ret'.kind = "resolved"
                    /\ bots' = Append(bots, ret'.value)
                    /\ botConfigs'[ret'.value] \in AddBotModels
                    /\ \A id \in AllBotIds \ {ret'.value} : botConfigs'[id] = botConfigs[id]
            /\ \A id \in AllBotIds :
                   botConfigs[id] # Undefined => botConfigs'[id] = botConfigs[id]
      ]_vars

C21_Witness ==
    /\ lastOp = "addBot"
    /\ ret = DuplicateBot("dyn-1")
    /\ botConfigs["dyn-1"] \in AddBotModels
    /\ Len(bots) = Len(DefaultBots) + 2

(***************************************************************************)
(* Properties of the conversation under every interleaving, checked under  *)
(* SpecService.                                                            *)
(***************************************************************************)
IsPrefix(s, t) == Len(s) <= Len(t) /\ SubSeq(t, 1, Len(s)) = s

\* C22: in every step the log either stays as it is or gains messages at its
\* end (nothing is removed, reordered or modified), and along the log the
\* timestamps never decrease.
C22_AppendOnly ==
    [][ /\ IsPrefix(messages, messages')
        /\ \A i \in DOMAIN messages' : \A j \in DOMAIN messages' :
               i <= j => messages'[i].timestamp <= messages'[j].timestamp
      ]_vars

C22_Witness ==
    /\ Len(messages) >= 3
    /\ messages[1].timestamp < messages[2].timestamp
    /\ messages[2].timestamp = messages[3].timestamp
    /\ status = "stopped"
    /\ guidedPc # "idle"

\* C23: in a debate conversation activeBot is absent or one of participatingBots.
C23_ActiveBotParticipates ==
    (created /\ debateRound > 0) =>
        (activeBot = Undefined \/ activeBot \in SeqToSet(participatingBots))

RoleTypes(role) ==
    CASE role = "moderator" -> {"final-report", "clarifying-question", "bot-query", "moderator-thinking"}
      [] role = "bot" -> {"bot-response"}
      [] role = "system" -> {"system-message"}
      [] role = "user" -> {"user-question", "user-response", "user-interjection"}
      [] OTHER -> {}

\* C24: every message of the log has a type that goes with its role.
C24_TypeMatchesRole ==
    \A i \in DOMAIN messages : messages[i].type \in RoleTypes(messages[i].role)

(***************************************************************************)
(* Further properties of the debate conversation, checked under Spec.      *)
(***************************************************************************)
\* C25: stopped is entered only from debating, debating is never entered
\* after creation, completed is entered only from synthesizing, and no
\* transition leaves completed.
C25_StatusMachine ==
    [][ /\ ~created /\ created' => status' \in {"debating", "gathering-context"}
        /\ (status' = "stopped" /\ status # "stopped") => status = "debating"
        /\ (status' = "debating" /\ status # "debating") => ~created
        /\ (status' = "completed" /\ status # "completed") => status = "synthesizing"
        /\ status = "completed" => status' = "completed"
      ]_vars

\* C26: the turn that follows a failed turn of a debate with two or more
\* participants, status still debating, goes to another participant than the
\* one that failed.
C26_FailedSpeakerIsSkipped ==
    [][ ( /\ lastOp = "turnFail"
          /\ lastOp' = "turnStart"
          /\ Len(participatingBots) >= 2 )
        => turnBot' # activeBot
      ]_vars

\* C27: what generateConclusion hands to the moderator is built from the
\* last 6 bot-response messages, as the context of a debate turn is.
C27_ConclusionFromDebateContext ==
    [][ lastOp' = "concludeStart" => ConclusionInput(messages') = buildDebateContext(messages') ]_vars

(***************************************************************************)
(* Further properties of the guided flow, checked under SpecGuided.        *)
(***************************************************************************)
Dispatched == {"askUser", "queryStart", "queryAbort", "synthStart"}

\* C28: every executed decision appends exactly one moderator-thinking
\* message carrying the decision's reasoning, and it is the first message the
\* decision adds to the log.
C28_ThinkingFirst ==
    [][ /\ lastOp' \in Dispatched =>
            /\ IsPrefix(messages, messages')
            /\ Len(messages') > Len(messages)
            /\ messages'[Len(messages) + 1] = Thinking(decision'.reasoning)
            /\ CountType(messages', "moderator-thinking")
                   = CountType(messages, "moderator-thinking") + 1
        /\ decision' # decision => lastOp' \in Dispatched
      ]_vars

C28_Witness ==
    /\ lastOp = "queryStart"
    /\ Len(messages) >= 2
    /\ messages[Len(messages) - 1] = Thinking("code is needed")
    /\ Last(messages).type = "bot-query"
    /\ decision.reasoning = "code is needed"

\* C29: executing an ask-user decision sets the status to gathering-context
\* and leaves a clarifying-question of the moderator with the decision's
\* content as the last message; no agent call is pending, the caller's promise
\* resolves, and a further analysis starts only with createConversation or
\* processUserMessage.
C29_AskUserEndsChain ==
    [][ /\ lastOp' = "askUser" =>
            /\ status' = "gathering-context"
            /\ Last(messages').type = "clarifying-question"
            /\ Last(messages').role = "moderator"
            /\ Last(messages').content = decision'.content
            /\ guidedPc' = "idle"
            /\ ret'.kind = "resolved"
        /\ (guidedPc = "idle" /\ guidedPc' # "idle")
               => lastOp' \in {"createConversation", "processUserMessage"}
      ]_vars

C29_Witness ==
    /\ lastOp = "askUser"
    /\ guidedPc = "idle"
    /\ Last(messages).content = "clarify?"
    /\ CountType(messages, "bot-response") = 1

(***************************************************************************)
(* Further properties of the decision engine, checked under SpecDecision.  *)
(***************************************************************************)
ParsedObject == extractJSON(text).ok /\ extractJSON(text).kind = "object"
ReplyMembers == extractJSON(text).members
Asked == Get(ReplyMembers, "needsClarification") = "true"
ListOf(key) == IF Has(ReplyMembers, key) THEN Member(ReplyMembers, key).items ELSE Undefined
ElementOf(list, i) == IF list = Undefined \/ Len(list) < i THEN Undefined ELSE list[i]

\* C30 as stated: for every parsed reply, needsClarification = true gives
\* ask-user with content clarifyingQuestions[0] and nextSteps the remaining
\* questions; otherwise query-bot with target botsToConsult[0], content the
\* question and nextSteps researchPlan.
C30_InitialMappingAnyObject ==
    (Analyzed /\ ParsedObject) =>
        IF Asked
        THEN /\ decision.action = "ask-user"
             /\ decision.content = ElementOf(ListOf("clarifyingQuestions"), 1)
        ELSE /\ decision.action = "query-bot"
             /\ decision.target = ElementOf(ListOf("botsToConsult"), 1)
             /\ decision.content = Question
             /\ analyzeNextSteps(text) = ListOf("researchPlan")

\* C30: the same mapping for a parsed reply that carries the list it is read
\* from: clarifyingQuestions when needsClarification is true, botsToConsult
\* otherwise.
C30_InitialMapping ==
    (Analyzed /\ ParsedObject) =>
        IF Asked
        THEN ListOf("clarifyingQuestions") # Undefined =>
                /\ decision.action = "ask-user"
                /\ decision.content = ElementOf(ListOf("clarifyingQuestions"), 1)
                /\ analyzeNextSteps(text)
                       = SubSeq(ListOf("clarifyingQuestions"), 2, Len(ListOf("clarifyingQuestions")))
        ELSE ListOf("botsToConsult") # Undefined =>
                /\ decision.action = "query-bot"
                /\ decision.target = ElementOf(ListOf("botsToConsult"), 1)
                /\ decision.content = Question
                /\ analyzeNextSteps(text) = ListOf("researchPlan")

C30_Witness ==
    /\ Analyzed
    /\ ParsedObject
    /\ Asked
    /\ decision = Decision("ask-user", Undefined, "which one?")
    /\ analyzeNextSteps(text) = <<"since when?">>
    /\ Has(ReplyMembers, "botsToConsult")

\* the consultation a bot-query at position i of the log opens
IsQueryError(m) == m.role = "system" /\ m.type = "system-message" /\ m.content = QueryErrorText
Answers(q, m) ==
    \/ m.type = "bot-response" /\ m.role = "bot" /\ m.botId = q.botId
    \/ IsQueryError(m)

\* C31: in the guided call chain a bot-response is appended only by the
\* continuation of the awaited specialist call, directly after the bot-query
\* of that call; every bot-query directly follows the thinking message of its
\* decision and is directly followed by its bot-response or by the failure
\* system-message, unless its call is still awaited; the messages of a
\* decision are appended after all messages of the decisions before it.
C31_ChainOrdered ==
    [][ /\ IsPrefix(messages, messages')
        /\ Len(BotResponses(messages')) # Len(BotResponses(messages)) =>
              /\ guidedPc = "query"
              /\ Last(messages).type = "bot-query"
              /\ messages' = Append(messages, Last(messages'))
              /\ Answers(Last(messages), Last(messages'))
        /\ \A i \in DOMAIN messages' :
              messages'[i].type = "bot-query" =>
                 /\ i > 1
                 /\ messages'[i - 1].type = "moderator-thinking"
                 /\ IF i = Len(messages')
                    THEN guidedPc' = "query" /\ guidedBot' = messages'[i].botId
                    ELSE Answers(messages'[i], messages'[i + 1])
      ]_vars

C31_Witness ==
    /\ lastOp = "queryFail"
    /\ \E i, j \in DOMAIN messages :
          /\ i + 1 < j /\ j < Len(messages)
          /\ messages[i].type = "bot-query"
          /\ messages[i + 1].type = "bot-response"
          /\ messages[j].type = "bot-query"
          /\ IsQueryError(messages[j + 1])

(***************************************************************************)
(* Further properties of the service as a whole, checked under SpecService.*)
(***************************************************************************)
\* C32: once the conversation is stored, no step of any operation changes
\* its id, userId, title, debateMode or participatingBots.
C32_IdentityFixed ==
    [][ created =>
            /\ conversationId' = conversationId
            /\ userId' = userId
            /\ title' = title
            /\ debateMode' = debateMode
            /\ participatingBots' = participatingBots
      ]_vars

C32_Witness ==
    /\ created
    /\ debateMode = TRUE
    /\ title = "question"
    /\ conversationId = NewConversationId
    /\ participatingBots = <<"dyn-1">>
    /\ status = "completed"
    /\ CountContent(messages, StopText) = 1
    /\ CountType(messages, "bot-response") = 1

(***************************************************************************)
(* Conversations created after others, checked under SpecSuccessive.       *)
(***************************************************************************)
\* C33: a debate created without model selections has exactly the
\* pre-configured specialists as participants, whatever was created before.
C33_DefaultParticipants ==
    [][ lastOp' = "createConversation" => participatingBots' = DefaultBots ]_vars

(***************************************************************************)
(* Statuses of the guided flow at rest, checked under SpecGuided.          *)
(***************************************************************************)
\* C34: when no call chain of the guided conversation is in flight, its
\* status is gathering-context or completed, never researching or
\* synthesizing.
C34_ResumableAtRest ==
    (created /\ guidedPc = "idle") => status \in {"gathering-context", "completed"}

(***************************************************************************)
(* The debate loop under every interleaving, checked under SpecService.    *)
(***************************************************************************)
\* C35: at any time at most one getNextDebateResponse call of the
\* conversation is pending in a timer or suspended at its agent call, and the
\* loop is at rest exactly when there is none.
C35_OneTurnAtATime ==
    /\ pendingTurns <= 1
    /\ pendingTurns = 0 <=> debatePc = "idle"

C35_Witness ==
    /\ pendingTurns = 1
    /\ debatePc = "timer"
    /\ guidedPc # "idle"
    /\ CountType(messages, "bot-response") = 1
    /\ CountContent(messages, TurnErrorText) = 1

(***************************************************************************)
(* The debate loop and generateConclusion, checked under Spec.             *)
(***************************************************************************)
\* C36: once generateConclusion has appended its final-report, the scheduler
\* starts no debate turn and appends no bot-response.
C36_NoTurnAfterConclusion ==
    [][ CountType(messages, "final-report") > 0 =>
            /\ BotResponses(messages') = BotResponses(messages)
            /\ lastOp' # "turnStart"
      ]_vars

\* C37: while the status of a stored debate is debating, a turn is pending in
\* a timer or awaiting its agent call.
C37_DebatingMeansScheduled ==
    (created /\ status = "debating") => debatePc \in {"timer", "inflight"}

\* C38: a completed conversation has no activeBot.
C38_CompletedHasNoActiveBot ==
    status = "completed" => activeBot = Undefined

(***************************************************************************)
(* Termination of the debate loop, checked under SpecFair.                 *)
(***************************************************************************)
LoopSteps == {"turnStart", "turnSkipped", "turnOk", "turnFail"}

\* C39: after a stopDebate the debate loop comes to rest for good: no turn
\* is pending or in flight.  While it winds down its steps leave the status
\* alone, and once it is at rest the log and the status of a stopped
\* conversation change only by a further stopDebate or a generateConclusion.
C39_StopQuiesces ==
    /\ (lastOp = "stopDebate") ~> [](debatePc = "idle" /\ pendingTurns = 0)
    /\ [][ lastOp' \in LoopSteps => status' = status ]_vars
    /\ [][ (status = "stopped" /\ debatePc = "idle") =>
              \/ lastOp' \in {"stopDebate", "concludeStart", "concludeReturn", "concludeFail"}
              \/ (messages' = messages /\ status' = status)
         ]_vars

C39_Witness ==
    /\ status = "stopped"
    /\ debatePc = "idle"
    /\ pendingTurns = 0
    /\ lastOp = "turnSkipped"
    /\ Last(messages).content = StopText
    /\ CountType(messages, "bot-response") = 2

(***************************************************************************)
(* The browser's WebSocketService, checked under SpecSocket.               *)
(***************************************************************************)
\* C40: at most one socket is live, and while a socket is live the service
\* refers to it: a close event of an earlier socket neither clears the
\* reference nor leads to a second socket.
C40_OneLiveSocket ==
    /\ Cardinality(LiveSockets) <= 1
    /\ LiveSockets # {} => ws \in LiveSockets

====
